---- MODULE Spec2Model ----
(***************************************************************************)
(* IVoice: translation dispatch, daily usage quota, audio capture pipeline *)
(* and history store of src/App.tsx, with the capability layer of          *)
(* src/geminiService.ts.                                                   *)
(*                                                                         *)
(* React state is one variable per useState cell, refs are one variable    *)
(* per useRef cell, localStorage is one variable per key.  A handler runs  *)
(* to its first real suspension (a pending getUserMedia, a pending cloud   *)
(* call, a queued recorder event) in one action; the continuation is       *)
(* another action.  A continuation sees the props and state of the render  *)
(* in which its handler was created, so what it reads is stored with the   *)
(* suspended call.  No handler reads error, showPremiumModal or            *)
(* translationResult (only the render does), so these cells are modelled   *)
(* by the writes each step makes to them, kept in "effects".               *)
(***************************************************************************)
EXTENDS Integers, Sequences, FiniteSets, Bags, TLC

VARIABLES
  today,              \* calendar day of new Date().toISOString().split('T')[0]
  isOnline,           \* useState isOnline, kept equal to navigator.onLine by the online/offline events
  usage,              \* localStorage 'gv_usage'
  history,            \* useState history
  nextId,             \* number of HistoryItems created so far (ids are 1..nextId)
  user,               \* useState user
  mode,               \* useState mode
  motherLangCode,     \* useState motherLangCode
  targetLangCode,     \* useState targetLangCode
  isRecording,        \* useState isRecording
  isLoading,          \* useState isLoading
  effects,            \* what the last step called: setError, setShowPremiumModal(true),
                      \* setTranslationResult, speakText and the capability it invoked
  phase,              \* where the current recording session is suspended
  mediaRecorder,      \* mediaRecorderRef.current and its state
  stream,             \* streamRef.current and the state of its tracks
  audioContext,       \* audioContextRef.current and its state
  chunks,             \* chunksRef.current.length
  session,            \* the render captured by the session's startRecording / onstop
  leaked,             \* a stream or audio context no ref points to any more is still live
  pending,            \* bag of cloud capability calls that have not resolved yet
  budget,             \* how many translations this behaviour may still start
  cloudToday,         \* cloud translations that succeeded today for non-premium requests
  gv_history,         \* localStorage 'gv_history'
  queued,             \* the setHistory update the mount effect queued, not rendered yet
  lastHistory,        \* history as the last mutation before the latest restart left it
  input,              \* arguments of the function applied in a function-level specification,
                      \* or the id last handed to onDelete
  output              \* what it returned ("none" until it has been applied)

envVars   == <<today, isOnline>>
storeVars == <<usage, history, gv_history, nextId>>
langVars  == <<motherLangCode, targetLangCode>>
pipeVars  == <<phase, mediaRecorder, stream, audioContext, chunks, session, leaked>>
fixedVars == <<budget, queued, lastHistory, input, output>>
vars == <<today, isOnline, usage, history, nextId, user, mode, motherLangCode,
          targetLangCode, isRecording, isLoading, effects, phase, mediaRecorder, stream, audioContext, chunks,
          session, leaked, pending, budget, cloudToday, gv_history, queued, lastHistory,
          input, output>>

----------------------------------------------------------------------------
(* Bounds of the model *)

MaxDay == 2
MaxCalls == 4
MaxRun == 52

(* Program constants *)

DailyLimit == 3
HistoryCap == 50

Langs == {"en", "id"}
Modes == {"voice-to-voice", "voice-to-text", "text-to-text", "image-to-text", "offline-settings"}
VoiceModes == {"voice-to-voice", "voice-to-text"}

Min(a, b) == IF a < b THEN a ELSE b

----------------------------------------------------------------------------
(* Values *)

NoUser == [present |-> FALSE, isPremium |-> FALSE, downloadedLanguages |-> {}]
NoLedger == [present |-> FALSE, date |-> 0, count |-> 0]
NoSession == [isOnline |-> FALSE, user |-> NoUser, mode |-> "voice-to-voice",
              motherLangCode |-> "en", targetLangCode |-> "en"]

(* The render a handler closes over: the state cells its continuation reads. *)
Render == [isOnline |-> isOnline, user |-> user, mode |-> mode,
           motherLangCode |-> motherLangCode, targetLangCode |-> targetLangCode]

----------------------------------------------------------------------------
(* Usage quota ledger *)

ReadUsage(u, day) == IF u.present THEN [date |-> u.date, count |-> u.count]
                                  ELSE [date |-> day, count |-> 0]

ObservedUsage(u, day) ==
  LET usage0 == ReadUsage(u, day)
  IN  IF usage0.date # day THEN [date |-> day, count |-> 0] ELSE usage0

(* premium is the value of user?.isPremium in the render of the caller *)
checkUsageLimit_ignoring_date(premium, u, day) ==
  premium \/ ReadUsage(u, day).count < DailyLimit

checkUsageLimit_off_by_one(premium, u, day) ==
  premium \/ ObservedUsage(u, day).count <= DailyLimit

checkUsageLimit(premium, u, day) ==
  premium \/ ObservedUsage(u, day).count < DailyLimit

incrementUsage_charging_premium(premium, u, day) ==
  LET usage0 == ReadUsage(u, day)
  IN  [present |-> TRUE, date |-> usage0.date, count |-> usage0.count + 1]

incrementUsage(premium, u, day) ==
  IF premium THEN u
  ELSE LET usage0 == ReadUsage(u, day)
       IN  [present |-> TRUE, date |-> usage0.date, count |-> usage0.count + 1]

----------------------------------------------------------------------------
(* History store *)

addToHistory_off_by_one(h, item) ==
  LET grown == <<item>> \o h
  IN  SubSeq(grown, 1, Min(Len(grown), HistoryCap + 1))

addToHistory(h, item) ==
  LET grown == <<item>> \o h
  IN  SubSeq(grown, 1, Min(Len(grown), HistoryCap))

(* The stored text lists the items in order, each by what identifies it;   *)
(* parsing rebuilds the items from the text.                               *)
JSON_stringify(h) == [i \in 1..Len(h) |-> h[i].id]
JSON_parse(text) == [i \in 1..Len(text) |-> [id |-> text[i]]]

(* The persist effect writes the history of the render it ran in. *)
persistHistory(h) == gv_history' = JSON_stringify(h)

(* setHistory in a mounted component: the next render holds h and the      *)
(* persist effect of that render stores it.                                *)
setHistory(h) ==
  /\ history' = h
  /\ persistHistory(h)

----------------------------------------------------------------------------
(* Error classifier.  An error is known by what its message is and by      *)
(* which of the substrings the two classifiers look for it contains.       *)

Signals == {"SAFETY", "429", "quota", "RECITATION"}

RawFailure(sig) == [message |-> "raw", signals |-> sig, contains |-> {}]
BlankFailure == [message |-> "", signals |-> {}, contains |-> {}]
EmptyResponse == [message |-> "EmptyResponse", signals |-> {}, contains |-> {}]
SafetyBlock == [message |-> "SafetyBlock", signals |-> {}, contains |-> {"Safety"}]
LimitReached == [message |-> "LimitReached", signals |-> {}, contains |-> {"Limit"}]
RecitationBlock == [message |-> "RecitationBlock", signals |-> {}, contains |-> {}]

(* What a cloud call can throw inside translateAudio/Text/Image's try: an *)
(* error of the SDK or of JSON.parse, whose message may hold any of the    *)
(* substrings either classifier looks for, or the empty-response error.    *)
CloudFailures ==
  {[message |-> "raw", signals |-> sig, contains |-> con] :
     sig \in SUBSET Signals, con \in SUBSET {"Safety", "Limit"}}
    \cup {BlankFailure, EmptyResponse}

handleGenAIError_limit_first(err) ==
  IF "429" \in err.signals \/ "quota" \in err.signals THEN LimitReached
  ELSE IF "SAFETY" \in err.signals THEN SafetyBlock
  ELSE IF "RECITATION" \in err.signals THEN RecitationBlock
  ELSE err

handleGenAIError(err) ==
  IF "SAFETY" \in err.signals THEN SafetyBlock
  ELSE IF "429" \in err.signals \/ "quota" \in err.signals THEN LimitReached
  ELSE IF "RECITATION" \in err.signals THEN RecitationBlock
  ELSE err

parseErrorMessage_offline_last(err, navigatorOnLine) ==
  IF "Safety" \in err.contains THEN "SafetyMsg"
  ELSE IF "Limit" \in err.contains THEN "LimitMsg"
  ELSE IF ~navigatorOnLine THEN "NoInternet"
  ELSE IF err.message # "" THEN err.message
  ELSE "Unexpected"

parseErrorMessage(err, navigatorOnLine) ==
  IF ~navigatorOnLine THEN "NoInternet"
  ELSE IF "Safety" \in err.contains THEN "SafetyMsg"
  ELSE IF "Limit" \in err.contains THEN "LimitMsg"
  ELSE IF err.message # "" THEN err.message
  ELSE "Unexpected"


----------------------------------------------------------------------------
(* Offline dictionary resolver.  Texts are strings; a character is a       *)
(* string of length one.  Translations that are not ASCII in the source    *)
(* are written here as ASCII stand-ins, one per source string.             *)

SupportedLanguageCode == {"en", "id", "zh", "es", "ko", "ja", "nl", "ar"}

UpperLetters == "ABCDEFGHIJKLMNOPQRSTUVWXYZ"
LowerLetters == "abcdefghijklmnopqrstuvwxyz"

charAt(s, i) == SubSeq(s, i, i)
IndexIn(letters, c) ==
  IF \E i \in 1..Len(letters) : charAt(letters, i) = c
  THEN CHOOSE i \in 1..Len(letters) : charAt(letters, i) = c
  ELSE 0

RECURSIVE MapChars(_, _, _)
MapChars(s, from, to) ==
  IF Len(s) = 0 THEN ""
  ELSE LET c == charAt(s, 1)
           i == IndexIn(from, c)
       IN  (IF i = 0 THEN c ELSE charAt(to, i)) \o MapChars(SubSeq(s, 2, Len(s)), from, to)

toLowerCase(s) == MapChars(s, UpperLetters, LowerLetters)
toUpperCase(s) == MapChars(s, LowerLetters, UpperLetters)

RECURSIVE trimStart(_)
trimStart(s) ==
  IF Len(s) > 0 /\ charAt(s, 1) = " " THEN trimStart(SubSeq(s, 2, Len(s))) ELSE s

RECURSIVE trimEnd(_)
trimEnd(s) ==
  IF Len(s) > 0 /\ charAt(s, Len(s)) = " " THEN trimEnd(SubSeq(s, 1, Len(s) - 1)) ELSE s

trim(s) == trimEnd(trimStart(s))

(* replace(/[?.!]/g, "") *)
RECURSIVE stripPunctuation(_)
stripPunctuation(s) ==
  IF Len(s) = 0 THEN ""
  ELSE (IF charAt(s, 1) \in {"?", ".", "!"} THEN "" ELSE charAt(s, 1))
         \o stripPunctuation(SubSeq(s, 2, Len(s)))

cleanText_keeping_case(text) == stripPunctuation(trim(text))

cleanText(text) == stripPunctuation(trim(toLowerCase(text)))

includes(s, key) ==
  \E i \in 1..(Len(s) - Len(key) + 1) : SubSeq(s, i, i + Len(key) - 1) = key

(* Object.keys(OFFLINE_DICTIONARY): the keys in declaration order *)
DictionaryKeys ==
  <<"hello", "thank you", "where is the bathroom", "help me", "good morning",
    "how much", "i am lost", "water", "food", "yes", "no">>

KeySet == {DictionaryKeys[i] : i \in 1..Len(DictionaryKeys)}

OFFLINE_DICTIONARY ==
  [key \in KeySet |->
    CASE key = "hello" ->
           [id |-> "halo", es |-> "hola", ja |-> "ja:konnichiwa", zh |-> "zh:nihao", en |-> "hello"]
      [] key = "thank you" ->
           [id |-> "terima kasih", es |-> "gracias", ja |-> "ja:arigatou", zh |-> "zh:xiexie",
            en |-> "thank you"]
      [] key = "where is the bathroom" ->
           [id |-> "di mana kamar mandi", es |-> "donde esta el bano",
            ja |-> "ja:toire wa doko desu ka", zh |-> "zh:xishoujian zai nali",
            en |-> "where is the bathroom"]
      [] key = "help me" ->
           [id |-> "tolong saya", es |-> "ayudame", ja |-> "ja:tasukete", zh |-> "zh:bangbang wo",
            en |-> "help me"]
      [] key = "good morning" ->
           [id |-> "selamat pagi", es |-> "buenos dias", ja |-> "ja:ohayou", zh |-> "zh:zaoshang hao",
            en |-> "good morning"]
      [] key = "how much" ->
           [id |-> "berapa harganya", es |-> "cuanto cuesta", ja |-> "ja:ikura desu ka",
            zh |-> "zh:duoshao qian", en |-> "how much"]
      [] key = "i am lost" ->
           [id |-> "saya tersesat", es |-> "estoy perdido", ja |-> "ja:mayoimashita",
            zh |-> "zh:wo milu le", en |-> "i am lost"]
      [] key = "water" ->
           [id |-> "air", es |-> "agua", ja |-> "ja:mizu", zh |-> "zh:shui", en |-> "water"]
      [] key = "food" ->
           [id |-> "makanan", es |-> "comida", ja |-> "ja:tabemono", zh |-> "zh:shiwu", en |-> "food"]
      [] key = "yes" ->
           [id |-> "ya", es |-> "si", ja |-> "ja:hai", zh |-> "zh:shi", en |-> "yes"]
      [] key = "no" ->
           [id |-> "tidak", es |-> "no", ja |-> "ja:iie", zh |-> "zh:bu", en |-> "no"]]

(* Names every object literal inherits from Object.prototype; of these     *)
(* only the ones without an upper-case letter can equal a lowered text.    *)
InheritedNames ==
  {"constructor", "__proto__", "toString", "valueOf", "hasOwnProperty",
   "isPrototypeOf", "propertyIsEnumerable", "toLocaleString"}

(* OFFLINE_DICTIONARY[name]: an own entry, an inherited object (which has  *)
(* no property named by a language code), or undefined.                    *)
Undefined == [defined |-> FALSE, props |-> [code \in {} |-> ""]]
Lookup(name) ==
  IF name \in KeySet THEN [defined |-> TRUE, props |-> OFFLINE_DICTIONARY[name]]
  ELSE IF name \in InheritedNames THEN [defined |-> TRUE, props |-> [code \in {} |-> ""]]
  ELSE Undefined

(* obj?.[code]: a string, or "undefined" *)
OptionalProp(obj, code) ==
  IF obj.defined /\ code \in DOMAIN obj.props THEN obj.props[code] ELSE "undefined"

Falsy(value) == value = "undefined" \/ value = ""

RECURSIVE findFrom(_, _)
findFrom(i, clean) ==
  IF i > Len(DictionaryKeys) THEN "undefined"
  ELSE IF includes(clean, DictionaryKeys[i]) THEN DictionaryKeys[i]
  ELSE findFrom(i + 1, clean)

RECURSIVE findLastFrom(_, _)
findLastFrom(i, clean) ==
  IF i < 1 THEN "undefined"
  ELSE IF includes(clean, DictionaryKeys[i]) THEN DictionaryKeys[i]
  ELSE findLastFrom(i - 1, clean)

findKey_last(clean) == findLastFrom(Len(DictionaryKeys), clean)

(* Object.keys(OFFLINE_DICTIONARY).find(key => cleanText.includes(key)) *)
findKey(clean) == findFrom(1, clean)

Passthrough(text) == "[Offline: " \o text \o "]"

Returned(result) == [status |-> "returned", result |-> result]
NoResult == [original_text |-> "", detected_language |-> "", translated_text |-> "",
             phonetic |-> ""]
Threw == [status |-> "threw", result |-> NoResult]
NotCalled == [status |-> "pending", result |-> NoResult]

(* without the ?. of line 56 an unknown text makes the first lookup throw *)
translateOffline_unchained(text, targetCode) ==
  IF ~Lookup(cleanText(text)).defined THEN Threw
  ELSE Returned([original_text |-> text, detected_language |-> "en",
                 translated_text |-> OptionalProp(Lookup(cleanText(text)), targetCode),
                 phonetic |-> ""])

translateOffline(text, targetCode) ==
  LET clean == cleanText(text)
      direct == OptionalProp(Lookup(clean), targetCode)
      foundKey == findKey(clean)
      translation ==
        IF ~Falsy(direct) THEN direct
        ELSE IF foundKey # "undefined"
        THEN OptionalProp(Lookup(foundKey), targetCode)
        ELSE "undefined"
  IN  Returned([original_text |-> text,
                detected_language |-> "en",
                translated_text |-> IF Falsy(translation) THEN Passthrough(text) ELSE translation,
                phonetic |-> ""])

----------------------------------------------------------------------------
(* The writes a step makes to the view cells, and the capability it calls. *)
(* error: the argument of setError ("unset" if the step does not call it); *)
(* premiumModal: setShowPremiumModal(true) was called; result: the         *)
(* argument of setTranslationResult; capability: what the step invoked.    *)

Eff(op, err, modal, result, capability) ==
  [op |-> op, error |-> err, premiumModal |-> modal, result |-> result,
   capability |-> capability, detected |-> "none", speak |-> "none"]

(* A step that got a result: detected is its detected_language, voice the  *)
(* language whose ttsLocale speakText was called with ("none": no call).   *)
WithResult(e, detected, voice) == [e EXCEPT !.detected = detected, !.speak = voice]

(* line 223 *)
ttsLang(detected, mother, target) == IF detected = mother THEN target ELSE mother

Quiet == Eff("quiet", "unset", FALSE, "unset", "none")

(* Translations this behaviour has started: finished, pending, or being recorded. *)
Started == nextId + BagCardinality(pending) + (IF phase # "Idle" THEN 1 ELSE 0)

----------------------------------------------------------------------------
(* Initial state: the component has mounted, nobody is signed in.  The     *)
(* persisted ledger is absent, or was left full by the day before day 1.   *)

InitLedgers == {NoLedger, [present |-> TRUE, date |-> 0, count |-> DailyLimit]}

InitCommon ==
  /\ today = 1
  /\ history = <<>>
  /\ nextId = 0
  /\ mode = "voice-to-voice"
  /\ motherLangCode = "en"
  /\ targetLangCode = "id"
  /\ isRecording = FALSE
  /\ isLoading = FALSE
  /\ effects = Quiet
  /\ phase = "Idle"
  /\ mediaRecorder = "none"
  /\ stream = "none"
  /\ audioContext = "none"
  /\ chunks = 0
  /\ session = NoSession
  /\ leaked = FALSE
  /\ pending = EmptyBag
  /\ cloudToday = 0
  /\ gv_history = JSON_stringify(<<>>)
  /\ queued = <<>>
  /\ lastHistory = <<>>

Init ==
  /\ InitCommon
  /\ input = "none"
  /\ output = "none"
  /\ isOnline \in BOOLEAN
  /\ usage \in InitLedgers
  /\ user = NoUser
  /\ budget = MaxCalls

----------------------------------------------------------------------------
(* Environment *)

handleOnline ==
  /\ ~isOnline
  /\ isOnline' = TRUE
  /\ effects' = Quiet
  /\ UNCHANGED <<today, storeVars, user, mode, langVars, isRecording, isLoading,
                 pipeVars, pending, fixedVars, cloudToday>>

handleOffline ==
  /\ isOnline
  /\ isOnline' = FALSE
  /\ effects' = Quiet
  /\ UNCHANGED <<today, storeVars, user, mode, langVars, isRecording, isLoading,
                 pipeVars, pending, fixedVars, cloudToday>>

Midnight ==
  /\ today < MaxDay
  /\ today' = today + 1
  /\ cloudToday' = 0
  /\ effects' = Quiet
  /\ UNCHANGED <<isOnline, storeVars, user, mode, langVars, isRecording, isLoading,
                 pipeVars, pending, fixedVars>>

----------------------------------------------------------------------------
(* Session and settings *)

(* The accounts AuthModal hands to onAuth. *)
Accounts == {[present |-> TRUE, isPremium |-> premium, downloadedLanguages |-> packs] :
               premium \in BOOLEAN, packs \in {{}, {"id"}}}

onAuth(accounts) ==
  /\ ~user.present
  /\ \E newUser \in accounts : user' = newUser
  /\ effects' = Quiet
  /\ UNCHANGED <<envVars, storeVars, mode, langVars, isRecording, isLoading,
                 pipeVars, pending, fixedVars, cloudToday>>

handleLogout ==
  /\ user.present
  /\ user' = NoUser
  /\ effects' = Eff("quiet", "null", FALSE, "null", "none")
  /\ UNCHANGED <<envVars, storeVars, mode, langVars, isRecording, isLoading,
                 pipeVars, pending, fixedVars, cloudToday>>

handleDownloadPack ==
  /\ user.present
  /\ mode = "offline-settings"
  /\ \E code \in Langs :
       /\ code \notin user.downloadedLanguages
       /\ user' = [user EXCEPT !.downloadedLanguages = @ \cup {code}]
  /\ effects' = Quiet
  /\ UNCHANGED <<envVars, storeVars, mode, langVars, isRecording, isLoading,
                 pipeVars, pending, fixedVars, cloudToday>>

(* modes: the mode buttons the behaviour presses *)
setMode(modes) ==
  /\ user.present
  /\ \E m \in modes \ {"offline-settings"} :
       /\ ~(~isOnline /\ m = "image-to-text")
       /\ mode' = m
  /\ effects' = Eff("quiet", "null", FALSE, "null", "none")
  /\ UNCHANGED <<envVars, storeVars, user, langVars, isRecording, isLoading,
                 pipeVars, pending, fixedVars, cloudToday>>

toggleOfflineSettings ==
  /\ user.present
  /\ mode' = IF mode = "offline-settings" THEN "voice-to-voice" ELSE "offline-settings"
  /\ effects' = Quiet
  /\ UNCHANGED <<envVars, storeVars, user, langVars, isRecording, isLoading,
                 pipeVars, pending, fixedVars, cloudToday>>

SelectorsEnabled == user.present /\ mode # "offline-settings" /\ ~(isRecording \/ isLoading)

setTargetLangCode ==
  /\ SelectorsEnabled
  /\ \E code \in Langs : code # targetLangCode /\ targetLangCode' = code
  /\ effects' = Quiet
  /\ UNCHANGED <<envVars, storeVars, user, mode, motherLangCode, isRecording, isLoading,
                 pipeVars, pending, fixedVars, cloudToday>>

swapLanguages ==
  /\ SelectorsEnabled
  /\ motherLangCode' = targetLangCode
  /\ targetLangCode' = motherLangCode
  /\ effects' = Eff("quiet", "unset", FALSE, "null", "none")
  /\ UNCHANGED <<envVars, storeVars, user, mode, isRecording, isLoading,
                 pipeVars, pending, fixedVars, cloudToday>>

----------------------------------------------------------------------------
(* Translation dispatcher *)

NewItem == [id |-> nextId + 1]

(* A cloud capability call that has been issued and has not resolved:      *)
(* what its continuation reads from the render that issued it.             *)
CloudCall(kind, env, blob) ==
  [kind |-> kind, isPremium |-> env.user.isPremium, mode |-> env.mode, blob |-> blob,
   motherLangCode |-> env.motherLangCode, targetLangCode |-> env.targetLangCode]

(* What the cloud capability may report as detected_language. *)
Detections == Langs \cup {"es"}

(* speakText of processAudio's cloud path (222-225) *)
CloudPlayback(call, detected) ==
  IF call.kind = "voice" /\ call.mode = "voice-to-voice"
  THEN ttsLang(detected, call.motherLangCode, call.targetLangCode)
  ELSE "none"

(* speakText of processAudio's offline path (204-206); handleTextTranslate has none *)
OfflinePlayback(op, env) ==
  IF op = "onstop" /\ env.mode = "voice-to-voice" THEN env.targetLangCode ELSE "none"

IssueCloudCall(op, call) ==
  /\ pending' = pending (+) SetToBag({call})
  /\ isLoading' = TRUE
  /\ effects' = Eff(op, "null", FALSE, "null", "cloud")
  /\ UNCHANGED <<storeVars, cloudToday>>

(* The offline branch shared by processAudio (183-213) and                 *)
(* handleTextTranslate (239-264); translateOffline resolves in the same    *)
(* task, so the branch is one step.                                        *)
OfflineBranch_ignoring_pack(op, env, premiumMsg, packMsg, room) ==
  /\ pending' = pending
  /\ isLoading' = FALSE
  /\ cloudToday' = cloudToday
  /\ usage' = usage
  /\ IF ~env.user.isPremium
     THEN /\ effects' = Eff(op, premiumMsg, FALSE, "null", "none")
          /\ UNCHANGED <<history, gv_history, nextId>>
     ELSE /\ room
          /\ effects' = WithResult(Eff(op, "null", FALSE, "offline", "offline"),
                                   "en", OfflinePlayback(op, env))
          /\ setHistory(addToHistory(history, NewItem))
          /\ nextId' = nextId + 1

OfflineBranch(op, env, premiumMsg, packMsg, room) ==
  /\ pending' = pending
  /\ isLoading' = FALSE
  /\ cloudToday' = cloudToday
  /\ usage' = usage
  /\ IF ~env.user.isPremium
     THEN /\ effects' = Eff(op, premiumMsg, FALSE, "null", "none")
          /\ UNCHANGED <<history, gv_history, nextId>>
     ELSE IF env.targetLangCode \notin env.user.downloadedLanguages
     THEN /\ effects' = Eff(op, packMsg, FALSE, "null", "none")
          /\ UNCHANGED <<history, gv_history, nextId>>
     ELSE /\ room
          /\ effects' = WithResult(Eff(op, "null", FALSE, "offline", "offline"),
                                   "en", OfflinePlayback(op, env))
          /\ setHistory(addToHistory(history, NewItem))
          /\ nextId' = nextId + 1

processAudio(env, blob) ==
  IF ~env.isOnline
  THEN OfflineBranch("onstop", env, "OfflinePremiumVoice", "PackNotFoundVoice", TRUE)
  ELSE IssueCloudCall("onstop", CloudCall("voice", env, blob))

Blocked(op) ==
  /\ effects' = Eff(op, "unset", TRUE, "unset", "none")
  /\ UNCHANGED <<storeVars, isLoading, pending, cloudToday>>

TextTranslatorEnabled == user.present /\ mode = "text-to-text" /\ ~isLoading /\ ~isRecording

handleTextTranslate ==
  /\ TextTranslatorEnabled
  /\ IF ~checkUsageLimit(user.isPremium, usage, today)
     THEN Blocked("handleTextTranslate")
     ELSE IF ~isOnline
     THEN OfflineBranch("handleTextTranslate", Render,
                        "OfflinePremiumText", "PackNotDownloadedText", Started < budget)
     ELSE /\ Started < budget
          /\ IssueCloudCall("handleTextTranslate", CloudCall("text", Render, 0))
  /\ UNCHANGED <<envVars, user, mode, langVars, isRecording, pipeVars, fixedVars>>

ImageTranslatorEnabled == user.present /\ mode = "image-to-text" /\ ~isLoading

handleImageTranslate_quota_first ==
  /\ ImageTranslatorEnabled
  /\ IF ~checkUsageLimit(user.isPremium, usage, today)
     THEN Blocked("handleImageTranslate")
     ELSE IF ~isOnline
     THEN /\ effects' = Eff("handleImageTranslate", "ImageNeedsCloud", FALSE, "unset", "none")
          /\ UNCHANGED <<storeVars, isLoading, pending, cloudToday>>
     ELSE /\ Started < budget
          /\ IssueCloudCall("handleImageTranslate", CloudCall("image", Render, 0))
  /\ UNCHANGED <<envVars, user, mode, langVars, isRecording, pipeVars, fixedVars>>

handleImageTranslate ==
  /\ ImageTranslatorEnabled
  /\ IF ~isOnline
     THEN /\ effects' = Eff("handleImageTranslate", "ImageNeedsCloud", FALSE, "unset", "none")
          /\ UNCHANGED <<storeVars, isLoading, pending, cloudToday>>
     ELSE IF ~checkUsageLimit(user.isPremium, usage, today)
     THEN Blocked("handleImageTranslate")
     ELSE /\ Started < budget
          /\ IssueCloudCall("handleImageTranslate", CloudCall("image", Render, 0))
  /\ UNCHANGED <<envVars, user, mode, langVars, isRecording, pipeVars, fixedVars>>

CloudResolved_charging_failures(failures, detections) ==
  /\ \E call \in BagToSet(pending) :
       /\ pending' = pending (-) SetToBag({call})
       /\ usage' = incrementUsage(call.isPremium, usage, today)
       /\ \/ /\ \E detected \in detections :
                  effects' = WithResult(Eff("resolved", "unset", FALSE, "cloud", "none"),
                                        detected, CloudPlayback(call, detected))
             /\ setHistory(addToHistory(history, NewItem))
             /\ nextId' = nextId + 1
             /\ cloudToday' = IF call.isPremium THEN cloudToday ELSE cloudToday + 1
          \/ /\ \E raw \in failures :
                  effects' = Eff("rejected", parseErrorMessage(handleGenAIError(raw), isOnline),
                                 FALSE, "unset", "none")
             /\ UNCHANGED <<history, gv_history, nextId, cloudToday>>
  /\ isLoading' = FALSE
  /\ UNCHANGED <<envVars, user, mode, langVars, isRecording, pipeVars, fixedVars>>

(* The continuation of processAudio / handleTextTranslate /                *)
(* handleImageTranslate after the awaited cloud call settles with a        *)
(* result, whose detected_language is one of "detections", or throws one   *)
(* of "failures".                                                          *)
CloudResolved(failures, detections) ==
  /\ \E call \in BagToSet(pending) :
       /\ pending' = pending (-) SetToBag({call})
       /\ \/ /\ \E detected \in detections :
                  effects' = WithResult(Eff("resolved", "unset", FALSE, "cloud", "none"),
                                        detected, CloudPlayback(call, detected))
             /\ setHistory(addToHistory(history, NewItem))
             /\ nextId' = nextId + 1
             /\ usage' = incrementUsage(call.isPremium, usage, today)
             /\ cloudToday' = IF call.isPremium THEN cloudToday ELSE cloudToday + 1
          \/ /\ \E raw \in failures :
                  effects' = Eff("rejected", parseErrorMessage(handleGenAIError(raw), isOnline),
                                 FALSE, "unset", "none")
             /\ UNCHANGED <<storeVars, cloudToday>>
  /\ isLoading' = FALSE
  /\ UNCHANGED <<envVars, user, mode, langVars, isRecording, pipeVars, fixedVars>>

----------------------------------------------------------------------------
(* Audio capture pipeline *)

(* RecordButton shows Start while isRecording is false and is disabled     *)
(* while isLoading; a session is started from Idle only (spec 4.3).        *)
RecordButtonOffersStart ==
  user.present /\ mode \in VoiceModes /\ ~isRecording /\ ~isLoading /\ phase = "Idle"

RecordButtonOffersStop == user.present /\ mode \in VoiceModes /\ isRecording

(* checkUsageLimit storing the reset it computes for a stale date *)
startRecording_persisting_reset ==
  /\ RecordButtonOffersStart
  /\ usage' = IF user.isPremium THEN usage
              ELSE [present |-> TRUE, date |-> ObservedUsage(usage, today).date,
                    count |-> ObservedUsage(usage, today).count]
  /\ IF ~checkUsageLimit(user.isPremium, usage, today)
     THEN /\ effects' = Eff("startRecording", "unset", TRUE, "unset", "none")
          /\ UNCHANGED <<phase, session>>
     ELSE /\ Started < budget
          /\ effects' = Eff("startRecording", "null", FALSE, "unset", "getUserMedia")
          /\ phase' = "Acquiring"
          /\ session' = Render
  /\ UNCHANGED <<envVars, history, gv_history, nextId, user, mode, langVars, isRecording,
                 isLoading, mediaRecorder, stream, audioContext, chunks, leaked, pending,
                 fixedVars, cloudToday>>

startRecording ==
  /\ RecordButtonOffersStart
  /\ IF ~checkUsageLimit(user.isPremium, usage, today)
     THEN /\ effects' = Eff("startRecording", "unset", TRUE, "unset", "none")
          /\ UNCHANGED <<phase, session>>
     ELSE /\ Started < budget
          /\ effects' = Eff("startRecording", "null", FALSE, "unset", "getUserMedia")
          /\ phase' = "Acquiring"
          /\ session' = Render
  /\ UNCHANGED <<envVars, storeVars, user, mode, langVars, isRecording, isLoading,
                 mediaRecorder, stream, audioContext, chunks, leaked, pending,
                 fixedVars, cloudToday>>

(* getUserMedia rejects: permission denied or no input device. *)
getUserMediaRejected_flagging_first ==
  /\ phase = "Acquiring"
  /\ phase' = "Idle"
  /\ session' = NoSession
  /\ isRecording' = TRUE
  /\ effects' = Eff("getUserMediaRejected", "MicDenied", FALSE, "unset", "none")
  /\ UNCHANGED <<envVars, storeVars, user, mode, langVars, isLoading,
                 mediaRecorder, stream, audioContext, chunks, leaked, pending,
                 fixedVars, cloudToday>>

getUserMediaRejected ==
  /\ phase = "Acquiring"
  /\ phase' = "Idle"
  /\ session' = NoSession
  /\ effects' = Eff("getUserMediaRejected", "MicDenied", FALSE, "unset", "none")
  /\ UNCHANGED <<envVars, storeVars, user, mode, langVars, isRecording, isLoading,
                 mediaRecorder, stream, audioContext, chunks, leaked, pending,
                 fixedVars, cloudToday>>

(* Where the rest of the try block can throw once the stream was granted. *)
ThrowPoints == {"none", "AudioContext", "MediaRecorder", "start"}

getUserMediaResolved(points) ==
  /\ phase = "Acquiring"
  /\ \E throwAt \in points :
       /\ stream' = "live"
       /\ audioContext' = IF throwAt = "AudioContext" THEN audioContext ELSE "running"
       /\ leaked' = (leaked \/ stream = "live"
                       \/ (throwAt # "AudioContext" /\ audioContext = "running"))
       /\ IF throwAt \in {"AudioContext", "MediaRecorder"}
          THEN UNCHANGED <<mediaRecorder, chunks>>
          ELSE /\ mediaRecorder' = IF throwAt = "start" THEN "inactive" ELSE "recording"
               /\ chunks' = 0
       /\ IF throwAt = "none"
          THEN /\ isRecording' = TRUE
               /\ phase' = "Recording"
               /\ effects' = Eff("getUserMedia", "unset", FALSE, "unset", "none")
               /\ UNCHANGED session
          ELSE /\ effects' = Eff("getUserMedia", "MicDenied", FALSE, "unset", "none")
               /\ phase' = "Idle"
               /\ session' = NoSession
               /\ UNCHANGED isRecording
  /\ UNCHANGED <<envVars, storeVars, user, mode, langVars, isLoading, pending,
                 fixedVars, cloudToday>>

stopRecording ==
  /\ RecordButtonOffersStop
  /\ mediaRecorder = "recording"
  /\ mediaRecorder' = "inactive"
  /\ isRecording' = FALSE
  /\ phase' = "Stopping"
  /\ effects' = Quiet
  /\ UNCHANGED <<envVars, storeVars, user, mode, langVars, isLoading, stream,
                 audioContext, chunks, session, leaked, pending, fixedVars, cloudToday>>

(* The recorder stops without stopRecording: MediaRecorder goes inactive   *)
(* and fires dataavailable and stop when the stream it records ends or     *)
(* when recording fails.  The handlers installed at lines 141-155 are the  *)
(* only code that runs; no state cell is written.                          *)
recorderStopsItself ==
  /\ phase = "Recording"
  /\ mediaRecorder = "recording"
  /\ mediaRecorder' = "inactive"
  /\ phase' = "Stopping"
  /\ effects' = Eff("recorderStopped", "unset", FALSE, "unset", "none")
  /\ UNCHANGED <<envVars, storeVars, user, mode, langVars, isRecording, isLoading, stream,
                 audioContext, chunks, session, leaked, pending, fixedVars, cloudToday>>

(* The recorder delivers what it gathered, possibly nothing, before stop. *)
ondataavailable(sizes) ==
  /\ phase = "Stopping"
  /\ \E size \in sizes : chunks' = IF size > 0 THEN chunks + 1 ELSE chunks
  /\ phase' = "Flushed"
  /\ effects' = Quiet
  /\ UNCHANGED <<envVars, storeVars, user, mode, langVars, isRecording, isLoading,
                 mediaRecorder, stream, audioContext, session, leaked, pending,
                 fixedVars, cloudToday>>

onstop_dropping_empty ==
  /\ phase = "Flushed"
  /\ IF chunks = 0
     THEN /\ effects' = Eff("onstop", "unset", FALSE, "unset", "none")
          /\ UNCHANGED <<storeVars, isLoading, pending, cloudToday>>
     ELSE processAudio(session, chunks)
  /\ stream' = IF stream # "none" THEN "stopped" ELSE stream
  /\ audioContext' = IF audioContext # "none" THEN "closed" ELSE audioContext
  /\ phase' = "Idle"
  /\ session' = NoSession
  /\ UNCHANGED <<envVars, user, mode, langVars, isRecording, mediaRecorder, chunks,
                 leaked, fixedVars>>

onstop ==
  /\ phase = "Flushed"
  /\ processAudio(session, chunks)
  /\ stream' = IF stream # "none" THEN "stopped" ELSE stream
  /\ audioContext' = IF audioContext # "none" THEN "closed" ELSE audioContext
  /\ phase' = "Idle"
  /\ session' = NoSession
  /\ UNCHANGED <<envVars, user, mode, langVars, isRecording, mediaRecorder, chunks,
                 leaked, fixedVars>>

----------------------------------------------------------------------------
(* History panel, and the life of the page *)

onDelete_dropping_older ==
  /\ user.present
  /\ \E id \in 1..nextId :
       /\ input' = id
       /\ setHistory(SelectSeq(history, LAMBDA item : item.id > id))
  /\ effects' = Eff("onDelete", "unset", FALSE, "unset", "none")
  /\ UNCHANGED <<envVars, usage, nextId, user, mode, langVars, isRecording, isLoading,
                 pipeVars, pending, budget, queued, lastHistory, output, cloudToday>>

(* onDelete(id) with the id of any item created so far, listed or not any  *)
(* more; the id is kept in "input".                                        *)
onDelete ==
  /\ user.present
  /\ \E id \in 1..nextId :
       /\ input' = id
       /\ setHistory(SelectSeq(history, LAMBDA item : item.id # id))
  /\ effects' = Eff("onDelete", "unset", FALSE, "unset", "none")
  /\ UNCHANGED <<envVars, usage, nextId, user, mode, langVars, isRecording, isLoading,
                 pipeVars, pending, budget, queued, lastHistory, output, cloudToday>>

(* confirm('Clear history?') answered with OK *)
onClearAll ==
  /\ user.present
  /\ setHistory(<<>>)
  /\ effects' = Eff("onClearAll", "unset", FALSE, "unset", "none")
  /\ UNCHANGED <<envVars, usage, nextId, user, mode, langVars, isRecording, isLoading,
                 pipeVars, pending, fixedVars, cloudToday>>

(* The page is closed, killed or reloaded and App mounts again.  Every     *)
(* state cell and ref starts from its initial value and what was pending   *)
(* is gone; localStorage stays.  After the first commit the mount effect   *)
(* reads gv_history and queues setHistory(parsed), then the persist effect *)
(* of that commit stores the history of the first render, which is empty.  *)
Restart ==
  /\ lastHistory' = IF queued = <<>> THEN history ELSE lastHistory
  /\ history' = <<>>
  /\ queued' = <<JSON_parse(gv_history)>>
  /\ persistHistory(<<>>)
  /\ user' = NoUser
  /\ mode' = "voice-to-voice"
  /\ motherLangCode' = "en"
  /\ targetLangCode' = "id"
  /\ isRecording' = FALSE
  /\ isLoading' = FALSE
  /\ effects' = Eff("mount", "unset", FALSE, "unset", "none")
  /\ phase' = "Idle"
  /\ mediaRecorder' = "none"
  /\ stream' = "none"
  /\ audioContext' = "none"
  /\ chunks' = 0
  /\ session' = NoSession
  /\ leaked' = FALSE
  /\ pending' = EmptyBag
  /\ UNCHANGED <<envVars, usage, nextId, budget, input, output, cloudToday>>

(* The render that follows the mount effect's setHistory, and its persist effect. *)
mountRerender ==
  /\ queued # <<>>
  /\ setHistory(queued[1])
  /\ queued' = <<>>
  /\ effects' = Eff("loaded", "unset", FALSE, "unset", "none")
  /\ UNCHANGED <<envVars, usage, nextId, user, mode, langVars, isRecording, isLoading,
                 pipeVars, pending, budget, lastHistory, input, output, cloudToday>>

----------------------------------------------------------------------------
(* The failures the cloud capability produces in the whole-program specification. *)
SomeFailures == {RawFailure({}), RawFailure({"SAFETY"}), EmptyResponse}

RequestModes == {"voice-to-voice", "text-to-text", "image-to-text"}

Next ==
  \/ handleOnline \/ handleOffline \/ Midnight
  \/ onAuth(Accounts)
  \/ setMode(RequestModes)
  \/ handleTextTranslate \/ handleImageTranslate \/ CloudResolved(SomeFailures, {"en"})
  \/ startRecording \/ getUserMediaRejected \/ getUserMediaResolved({"none"})
  \/ stopRecording \/ ondataavailable({1}) \/ onstop

Spec == Init /\ [][Next]_vars

(* The audio pipeline with every failure point, sign-out, and both voice modes. *)
NextAudio ==
  \/ handleOnline \/ handleOffline
  \/ onAuth(Accounts) \/ handleLogout
  \/ setMode(VoiceModes)
  \/ CloudResolved(SomeFailures, {"en"})
  \/ startRecording \/ getUserMediaRejected \/ getUserMediaResolved(ThrowPoints)
  \/ stopRecording \/ ondataavailable(0..1) \/ onstop

SpecAudio == Init /\ [][NextAudio]_vars

(* A long run of translations by one premium user, from an empty history. *)
InitHistory ==
  /\ InitCommon
  /\ input = "none"
  /\ output = "none"
  /\ isOnline = TRUE
  /\ usage = NoLedger
  /\ user \in {a \in Accounts : a.isPremium}
  /\ budget = MaxRun

NextHistory ==
  \/ handleOnline \/ handleOffline
  \/ setMode({"text-to-text", "image-to-text"})
  \/ handleTextTranslate \/ handleImageTranslate \/ CloudResolved(SomeFailures, {"en"})

SpecHistory == InitHistory /\ [][NextHistory]_vars

(* The history store across restarts: text translations, deletions, clears. *)
NextStore ==
  \/ handleOnline \/ handleOffline
  \/ (queued = <<>> /\ onAuth(Accounts))
  \/ setMode({"text-to-text"})
  \/ handleTextTranslate \/ CloudResolved(SomeFailures, {"en"})
  \/ onDelete \/ onClearAll
  \/ Restart \/ mountRerender

SpecStore == Init /\ [][NextStore]_vars

(* Recording sessions that the user stops or that the recorder ends. *)
NextRecorder ==
  \/ handleOnline \/ handleOffline
  \/ onAuth(Accounts)
  \/ setMode(VoiceModes)
  \/ CloudResolved(SomeFailures, {"en"})
  \/ startRecording \/ getUserMediaRejected \/ getUserMediaResolved({"none"})
  \/ stopRecording \/ recorderStopsItself \/ ondataavailable(0..1) \/ onstop

SpecRecorder == Init /\ [][NextRecorder]_vars

(* The classifier on its own: the catch of translateAudio / translateText / *)
(* translateImage rethrows through handleGenAIError and the catch of the   *)
(* caller hands what it caught to parseErrorMessage.                       *)
InitClassify ==
  /\ InitCommon
  /\ isOnline \in BOOLEAN
  /\ usage = NoLedger
  /\ user = NoUser
  /\ budget = MaxCalls
  /\ input \in CloudFailures
  /\ output = "none"

translateRejected ==
  /\ input \in CloudFailures
  /\ output = "none"
  /\ output' = parseErrorMessage(handleGenAIError(input), isOnline)
  /\ UNCHANGED <<envVars, storeVars, user, mode, langVars, isRecording, isLoading, effects,
                 pipeVars, pending, budget, queued, lastHistory, input, cloudToday>>

SpecClassify == InitClassify /\ [][translateRejected]_vars

(* Voice turns of a user who changes the language pair and downloads packs. *)
NextVoice ==
  \/ handleOnline \/ handleOffline
  \/ onAuth(Accounts)
  \/ toggleOfflineSettings \/ handleDownloadPack
  \/ setMode(VoiceModes)
  \/ swapLanguages
  \/ CloudResolved(SomeFailures, Detections)
  \/ startRecording \/ getUserMediaResolved({"none"})
  \/ stopRecording \/ ondataavailable({1}) \/ onstop

SpecVoice == Init /\ [][NextVoice]_vars

(* The offline resolver on its own.  The texts are what a user may type    *)
(* around a phrase: the phrase in lower case, upper case or capitalised,   *)
(* after nothing or a blank, before nothing, punctuation or a blank.       *)
Phrases ==
  KeySet \cup {"can you help me please", "no water", "food and water", "i know",
               "", "xyz", "constructor", "__proto__", "toString"}

Capitalised(s) ==
  IF Len(s) = 0 THEN s ELSE toUpperCase(SubSeq(s, 1, 1)) \o SubSeq(s, 2, Len(s))
Typed(phrase) ==
  {before \o form \o after :
     before \in {"", " "},
     form \in {phrase, toUpperCase(phrase), Capitalised(phrase)},
     after \in {"", "!", "?", ".", " ", "! ", " !"}}

OfflineTexts == UNION {Typed(phrase) : phrase \in Phrases}

InitOffline ==
  /\ InitCommon
  /\ isOnline = FALSE
  /\ usage = NoLedger
  /\ user = NoUser
  /\ budget = MaxCalls
  /\ input \in [text : OfflineTexts, targetLangCode : SupportedLanguageCode]
  /\ output = NotCalled

(* await translateOffline(inputText, targetLangCode), lines 201 and 255 *)
awaitTranslateOffline ==
  /\ output = NotCalled
  /\ output' = translateOffline(input.text, input.targetLangCode)
  /\ UNCHANGED <<envVars, storeVars, user, mode, langVars, isRecording, isLoading, effects,
                 pipeVars, pending, budget, queued, lastHistory, input, cloudToday>>

SpecOffline == InitOffline /\ [][awaitTranslateOffline]_vars

TypeOK ==
  /\ today \in 1..MaxDay
  /\ isOnline \in BOOLEAN
  /\ usage.count \in 0..(DailyLimit + MaxRun)
  /\ Len(history) <= HistoryCap
  /\ Started <= budget

----------------------------------------------------------------------------
(* Outcomes, read off the writes of a step *)

TopLevel == {"startRecording", "handleTextTranslate", "handleImageTranslate"}
EntitlementMessages == {"OfflinePremiumVoice", "PackNotFoundVoice",
                        "OfflinePremiumText", "PackNotDownloadedText"}
QuotaExceeded(e) == e.premiumModal
EntitlementRequired(e) == e.error \in EntitlementMessages
ConnectivityRequired(e) == e.error = "ImageNeedsCloud"
DeviceError(e) == e.error = "MicDenied"
CapabilityFailure(e) == e.op = "rejected"
Failed(e) ==
  \/ QuotaExceeded(e) \/ EntitlementRequired(e) \/ ConnectivityRequired(e)
  \/ DeviceError(e) \/ CapabilityFailure(e)
Entitled(usr, code) == usr.isPremium /\ code \in usr.downloadedLanguages
StoresUnchanged == history' = history /\ usage' = usage

----------------------------------------------------------------------------
(* C1: for a non-premium user, once three cloud translations have         *)
(* succeeded on a day, the next online top-level request of any mode is    *)
(* blocked with the premium modal and makes no capability call.            *)
C1_FourthRequestBlocked ==
  [][(effects'.op \in TopLevel /\ ~user.isPremium /\ isOnline /\ cloudToday >= DailyLimit)
       => (QuotaExceeded(effects') /\ effects'.capability = "none"
           /\ pending' = pending /\ phase' = phase)]_vars

(* C2: history never holds more than 50 items and is newest first; each   *)
(* append puts the new item at the head, keeps the others in order, and    *)
(* drops exactly the tail when the list was full.                          *)
C2_NewestFirst ==
  /\ Len(history) <= HistoryCap
  /\ \A i \in 1..(Len(history) - 1) : history[i].id > history[i + 1].id

C2_AppendStep ==
  nextId' # nextId =>
    /\ history'[1].id = nextId'
    /\ history' = <<history'[1]>> \o SubSeq(history, 1, Min(Len(history), HistoryCap - 1))

C2_HistoryCapped == []C2_NewestFirst /\ [][C2_AppendStep]_vars

C2_Witness ==
  /\ Len(history) = HistoryCap
  /\ history[1].id = HistoryCap + 1
  /\ effects.result # "unset"

(* C3 as claimed: after 51 translations from an empty history the item of  *)
(* the 2nd translation is absent.                                          *)
C3_SecondItemAbsent ==
  nextId = HistoryCap + 1 => \A i \in 1..Len(history) : history[i].id # 2

(* C3 as amended: after 51 translations from an empty history the item of  *)
(* the 1st translation is absent and the items of translations 51 down to  *)
(* 2 remain, newest first.                                                 *)
C3_FirstItemEvicted ==
  nextId = HistoryCap + 1 => history = [i \in 1..HistoryCap |-> [id |-> HistoryCap + 2 - i]]

C3_Witness == nextId = HistoryCap + 1 /\ history[HistoryCap].id = 2

(* C4: when the pipeline is idle, no microphone stream it acquired is     *)
(* live and no audio context it opened is running.                         *)
C4_ReleasedWhenIdle ==
  phase = "Idle" => (stream # "live" /\ audioContext # "running" /\ ~leaked)

(* C5: a step that ends a request in a failure outcome leaves the history  *)
(* and the usage ledger as they were.                                      *)
C5_FailureWritesNothing == [][Failed(effects') => StoresUnchanged]_vars

C5_Witness == CapabilityFailure(effects) /\ nextId >= 1 /\ usage.present /\ usage.date = today

(* C6: handleImageTranslate without connectivity yields ConnectivityRequired *)
(* whatever the entitlement and the ledger: no capability call, no quota   *)
(* check or charge, nothing appended.                                      *)
C6_ImageOffline ==
  [][(effects'.op = "handleImageTranslate" /\ ~isOnline)
       => (ConnectivityRequired(effects') /\ ~QuotaExceeded(effects')
           /\ effects'.capability = "none" /\ pending' = pending
           /\ isLoading' = isLoading /\ StoresUnchanged)]_vars

C6_Witness ==
  /\ ConnectivityRequired(effects)
  /\ ~user.isPremium
  /\ ObservedUsage(usage, today).count >= DailyLimit

(* C7 as claimed: an offline text or voice submission by a user without    *)
(* the entitlement yields EntitlementRequired whatever the ledger holds.   *)
C7_EntitlementWhateverLedger ==
  [][(effects'.op \in {"handleTextTranslate", "startRecording"} /\ ~isOnline
        /\ ~Entitled(user, targetLangCode))
       => (~QuotaExceeded(effects') /\ effects'.capability # "offline" /\ StoresUnchanged
           /\ (effects'.op = "handleTextTranslate" => EntitlementRequired(effects')))]_vars

(* C7 as amended: an offline text submission, or a voice turn whose        *)
(* recording was started offline, by a user without the entitlement never  *)
(* calls translateOffline and leaves ledger and history unchanged; it      *)
(* yields EntitlementRequired, unless the user is not premium and the      *)
(* day's observed count has reached 3, when the quota check blocks it      *)
(* first with QuotaExceeded.                                               *)
OverQuota == ~user.isPremium /\ ObservedUsage(usage, today).count >= DailyLimit

C7_EntitlementAfterQuota ==
  [][/\ (effects'.op \in {"handleTextTranslate", "startRecording"} /\ ~isOnline
          /\ ~Entitled(user, targetLangCode))
        => /\ effects'.capability # "offline"
           /\ StoresUnchanged
           /\ pending' = pending
           /\ QuotaExceeded(effects') <=> OverQuota
           /\ (effects'.op = "handleTextTranslate" /\ ~OverQuota) => EntitlementRequired(effects')
           /\ (effects'.op = "startRecording" /\ OverQuota) => phase' = phase
     /\ (effects'.op = "onstop" /\ ~session.isOnline
          /\ ~Entitled(session.user, session.targetLangCode))
        => /\ EntitlementRequired(effects')
           /\ effects'.capability = "none"
           /\ StoresUnchanged
           /\ pending' = pending]_vars

C7_Witness ==
  /\ effects.op = "onstop"
  /\ effects.error = "PackNotFoundVoice"
  /\ user.isPremium
  /\ usage.present

(* C8: a request checked against a ledger whose date is not today is not   *)
(* blocked, even when the stored count is 3 or more.                       *)
C8_StaleLedgerAllows ==
  [][(effects'.op \in TopLevel /\ usage.present /\ usage.date # today)
       => ~QuotaExceeded(effects')]_vars

C8_Witness ==
  /\ effects.op \in TopLevel
  /\ effects.capability # "none"
  /\ ~user.isPremium
  /\ usage.present /\ usage.date # today /\ usage.count >= DailyLimit

(* C9: the ledger changes only in the step that resolves a successful      *)
(* cloud call issued for a non-premium user, and then by +1; no request of *)
(* a premium user is blocked or charged, and no offline translation is     *)
(* charged.                                                                *)
C9_LedgerFrame ==
  [][/\ usage' # usage
        => /\ effects'.op = "resolved"
           /\ \E call \in BagToSet(pending) :
                pending' = pending (-) SetToBag({call}) /\ ~call.isPremium
           /\ usage'.count = ReadUsage(usage, today).count + 1
     /\ (user.isPremium /\ effects'.op \in TopLevel) => ~QuotaExceeded(effects')
     /\ effects'.capability = "offline" => usage' = usage]_vars

C9_Witness ==
  /\ user.isPremium
  /\ effects.op = "resolved"
  /\ nextId >= 2
  /\ usage = NoLedger

(* C10: the stop callback of a recording that gathered nothing still hands *)
(* one payload, built from the empty buffer, to processAudio, stops the    *)
(* stream, closes the audio context, and leaves the pipeline idle.         *)
C10_EmptyRecordingFinalizes ==
  [][(phase = "Flushed" /\ phase' # phase /\ chunks = 0)
       => /\ effects'.op = "onstop"
          /\ IF session.isOnline
             THEN pending' = pending (+) SetToBag({CloudCall("voice", session, 0)})
             ELSE pending' = pending
                  /\ (EntitlementRequired(effects') \/ effects'.capability = "offline")
          /\ stream' = "stopped"
          /\ audioContext' = "closed"
          /\ mediaRecorder' = "inactive"
          /\ phase' = "Idle"]_vars

C10_Witness ==
  /\ effects.op = "onstop"
  /\ effects.capability = "cloud"
  /\ chunks = 0
  /\ phase = "Idle"
  /\ stream = "stopped"
  /\ audioContext = "closed"

(* C11: when no load is queued the stored 'gv_history' parses to the       *)
(* history in memory; the history loaded after a restart is the history as *)
(* the last mutation before the restart left it; and the first commit of a *)
(* start leaves a stored history that is not empty as it found it.         *)
C11_PersistedSurvivesRestart ==
  /\ [](queued = <<>> => JSON_parse(gv_history) = history)
  /\ [][/\ effects'.op = "loaded" => history' = lastHistory'
        /\ (effects'.op = "mount" /\ Len(gv_history) > 0) => gv_history' = gv_history]_vars

(* C12: with connectivity present, a raw failure whose message contains    *)
(* "SAFETY" is surfaced as the content-safety message whatever else it     *)
(* contains, and one that contains "429" or "quota" and not "SAFETY" as    *)
(* the rate-limit message, also when it contains "RECITATION".             *)
C12_FirstMatchWins ==
  (output # "none" /\ isOnline /\ input.message = "raw") =>
    /\ "SAFETY" \in input.signals => output = "SafetyMsg"
    /\ ("SAFETY" \notin input.signals /\ input.signals \cap {"429", "quota"} # {})
         => output = "LimitMsg"

C12_Witness ==
  /\ output = "SafetyMsg"
  /\ isOnline
  /\ {"SAFETY", "429", "RECITATION"} \subseteq input.signals
  /\ "Limit" \in input.contains

(* C13: when a voice turn succeeds in voice-to-voice mode, speakText gets  *)
(* the target language's voice if the result's detected_language is the    *)
(* mother-language code and the mother language's voice otherwise, on the  *)
(* cloud path and on the offline path of processAudio.                     *)
C13_PlaybackVoice ==
  [][/\ (effects'.op = "resolved" /\ effects'.speak # "none")
        => \E call \in BagToSet(pending) :
             /\ pending' = pending (-) SetToBag({call})
             /\ call.kind = "voice"
             /\ effects'.speak = IF effects'.detected = call.motherLangCode
                                 THEN call.targetLangCode ELSE call.motherLangCode
     /\ (effects'.op = "onstop" /\ effects'.capability = "offline"
          /\ session.mode = "voice-to-voice")
        => effects'.speak = IF effects'.detected = session.motherLangCode
                            THEN session.targetLangCode ELSE session.motherLangCode]_vars

(* Offline resolver: the keys contained in the normalized input, by their  *)
(* place in the dictionary, and the key a text resolves through.           *)
ContainedKeys(clean) == {i \in 1..Len(DictionaryKeys) : includes(clean, DictionaryKeys[i])}
FirstContained(clean) ==
  DictionaryKeys[CHOOSE i \in ContainedKeys(clean) : \A j \in ContainedKeys(clean) : i <= j]
Covers(key, code) == code \in DOMAIN OFFLINE_DICTIONARY[key]

(* C14: translateOffline returns, for every text and every supported       *)
(* code, a result whose detected_language is "en" and whose original_text  *)
(* is the text; when no key matches, or the matched key has no entry for   *)
(* the code, translated_text is the passthrough marker around the text.    *)
C14_ResolverTotal ==
  output # NotCalled =>
    /\ output.status = "returned"
    /\ output.result.detected_language = "en"
    /\ output.result.original_text = input.text
    /\ LET clean == cleanText(input.text)
       IN  (\/ ContainedKeys(clean) = {}
            \/ ~Covers(IF clean \in KeySet THEN clean ELSE FirstContained(clean),
                       input.targetLangCode))
             => output.result.translated_text = Passthrough(input.text)

C14_Witness ==
  /\ output.status = "returned"
  /\ input.text = "constructor"
  /\ output.result.translated_text = "[Offline: constructor]"

(* C15: when the normalized input is no dictionary key but contains some,  *)
(* the result is resolved through the first of the contained keys in       *)
(* declaration order, wherever it stands in the input and whatever its     *)
(* length.                                                                 *)
C15_FirstKeyInOrder ==
  LET clean == cleanText(input.text)
  IN  (output # NotCalled /\ clean \notin KeySet /\ ContainedKeys(clean) # {})
        => output.result.translated_text =
             IF Covers(FirstContained(clean), input.targetLangCode)
             THEN OFFLINE_DICTIONARY[FirstContained(clean)][input.targetLangCode]
             ELSE Passthrough(input.text)

C15_Witness ==
  /\ input.text = "No water!"
  /\ input.targetLangCode = "es"
  /\ output.status = "returned"
  /\ output.result.translated_text = "agua"

(* C16 as claimed: for every dictionary key and every supported code, the  *)
(* key, its upper-cased form and the key followed by '!' resolve to the    *)
(* same translated_text.                                                   *)
C16_SameForEveryCode ==
  output # NotCalled =>
    \A key \in KeySet :
      input.text \in {key, toUpperCase(key), key \o "!"}
        => output.result.translated_text
             = translateOffline(key, input.targetLangCode).result.translated_text

(* C16 as amended: for every dictionary key and every code the dictionary  *)
(* has an entry for, the key typed in any letter case, after blanks,       *)
(* before blanks or '?', '.', '!', resolves to the dictionary's            *)
(* translation; for the other supported codes the result is the            *)
(* passthrough marker around the text as typed.                            *)
C16_SameForCoveredCodes ==
  output # NotCalled =>
    \A key \in KeySet :
      input.text \in Typed(key)
        => output.result.translated_text =
             IF Covers(key, input.targetLangCode)
             THEN OFFLINE_DICTIONARY[key][input.targetLangCode]
             ELSE Passthrough(input.text)

C16_Witness ==
  /\ input.text = " HELLO !"
  /\ input.targetLangCode = "es"
  /\ output.status = "returned"
  /\ output.result.translated_text = "hola"

(* C17: after incrementUsage ran for a non-premium request the stored      *)
(* ledger is {today, 1} if there was none or its date was not today, and   *)
(* {today, count + 1} if its date was today.                               *)
C17_RecordReplacesStale ==
  [][(/\ effects'.op = "resolved"
      /\ \E call \in BagToSet(pending) :
           pending' = pending (-) SetToBag({call}) /\ ~call.isPremium)
       => usage' = [present |-> TRUE,
                    date |-> today,
                    count |-> IF usage.present /\ usage.date = today
                              THEN usage.count + 1 ELSE 1]]_vars

(* C18: when the stop callback hands the payload to processAudio, the      *)
(* cloud capability is not invoked if connectivity is absent at that       *)
(* moment, and the offline resolver is not invoked if connectivity is      *)
(* present or the user then lacks the entitlement.                         *)
C18_RouteAtHandoff ==
  [][effects'.op = "onstop"
       => /\ ~isOnline => (effects'.capability # "cloud" /\ pending' = pending)
          /\ isOnline => effects'.capability # "offline"
          /\ ~Entitled(user, targetLangCode) => effects'.capability # "offline"]_vars

(* C19: of each kind (voice, text, image) at most one capability call is   *)
(* in flight at any time.                                                  *)
InFlight(kind) ==
  LET calls == {call \in BagToSet(pending) : call.kind = kind}
      RECURSIVE Sum(_)
      Sum(cs) == IF cs = {} THEN 0
                 ELSE LET call == CHOOSE c \in cs : TRUE
                      IN  CopiesIn(call, pending) + Sum(cs \ {call})
  IN  Sum(calls)

C19_OneInFlightPerSlot == \A kind \in {"voice", "text", "image"} : InFlight(kind) <= 1

(* C20: the step that checks the quota and the step that records usage are *)
(* different steps.  A top-level action of a non-premium user that starts  *)
(* a capability call passes the check against the ledger of that moment    *)
(* and leaves the ledger alone; the ledger is charged when the cloud call  *)
(* resolves, whatever it then holds.  So a request checked before another  *)
(* one is charged can take the day's count past the limit (the witness).   *)
C20_CheckThenRecord ==
  [][/\ (effects'.op \in TopLevel /\ effects'.capability # "none" /\ ~user.isPremium)
        => (ObservedUsage(usage, today).count < DailyLimit /\ usage' = usage)
     /\ (effects'.op = "onstop" /\ effects'.capability = "cloud") => usage' = usage
     /\ (/\ effects'.op = "resolved"
         /\ \E call \in BagToSet(pending) :
              pending' = pending (-) SetToBag({call}) /\ ~call.isPremium)
        => usage'.count = ReadUsage(usage, today).count + 1]_vars

C20_Witness ==
  /\ effects.op = "resolved"
  /\ ~user.isPremium
  /\ usage.present /\ usage.date = today
  /\ usage.count > DailyLimit
  /\ cloudToday > DailyLimit

(* C21: checkUsageLimit only reads the ledger.  No top-level handler step, *)
(* blocked or not, changes 'gv_usage', also when the stored date is not    *)
(* today; every change of the ledger is the write of incrementUsage in the *)
(* step that resolves a cloud call of a non-premium request.               *)
C21_CheckIsPureRead ==
  [][/\ effects'.op \in TopLevel => usage' = usage
     /\ usage' # usage
        => /\ effects'.op = "resolved"
           /\ usage' = incrementUsage(FALSE, usage, today)]_vars

C21_Witness ==
  /\ effects.op \in TopLevel
  /\ effects.capability # "none"
  /\ ~user.isPremium
  /\ today = 2
  /\ usage.present /\ usage.date = 1 /\ usage.count >= 1

(* C22: when connectivity is absent as a cloud failure is surfaced, the    *)
(* message is the no-connection one for every failure, whatever signals    *)
(* and substrings its message holds; with connectivity present the         *)
(* no-connection message is never given.                                   *)
C22_OfflineOverrides ==
  output # "none" => (output = "NoInternet" <=> ~isOnline)

C22_Witness ==
  /\ output = "NoInternet"
  /\ ~isOnline
  /\ input.signals = Signals
  /\ input.contains = {"Safety", "Limit"}

(* C23: when getUserMedia rejects, the step surfaces the microphone error  *)
(* and leaves the pipeline idle as it was before the attempt: isRecording  *)
(* was and stays false, the recorder, stream and audio context refs are    *)
(* not assigned and no recorder is recording, nothing is handed to         *)
(* processAudio (no capability call, no loading flag, no session left to   *)
(* fire a stop callback), and history and ledger are unchanged.            *)
C23_DeniedLeavesIdle ==
  [][effects'.op = "getUserMediaRejected"
       => /\ DeviceError(effects')
          /\ ~isRecording /\ ~isRecording'
          /\ phase' = "Idle" /\ session' = NoSession
          /\ <<mediaRecorder', stream', audioContext', chunks', leaked'>>
               = <<mediaRecorder, stream, audioContext, chunks, leaked>>
          /\ mediaRecorder' # "recording"
          /\ effects'.capability = "none" /\ effects'.result = "unset"
          /\ pending' = pending /\ isLoading' = isLoading
          /\ history' = history /\ gv_history' = gv_history /\ usage' = usage]_vars

C23_Witness ==
  /\ effects.op = "getUserMediaRejected"
  /\ DeviceError(effects)
  /\ phase = "Idle"
  /\ ~isRecording
  /\ Len(history) >= 1
  /\ usage.present

(* C24: onDelete(id) leaves exactly the items whose id is not id, in the   *)
(* order they had, so an id that is not listed changes nothing; onClearAll *)
(* leaves the history empty; both leave the usage ledger alone, and the    *)
(* stored history is the history they leave.                               *)
Ids(h) == {h[i].id : i \in 1..Len(h)}

C24_RemoveAndClear ==
  [][/\ effects'.op = "onDelete"
        => LET keep == {i \in 1..Len(history) : history[i].id # input'}
           IN  /\ Len(history') = Cardinality(keep)
               /\ \A i \in keep : history'[Cardinality({j \in keep : j <= i})] = history[i]
               /\ input' \notin Ids(history) => history' = history
               /\ usage' = usage
               /\ JSON_parse(gv_history') = history'
     /\ effects'.op = "onClearAll"
        => /\ history' = <<>>
           /\ usage' = usage
           /\ JSON_parse(gv_history') = <<>>]_vars

C24_Witness ==
  /\ effects.op = "onDelete"
  /\ input = 2
  /\ history = <<[id |-> 3], [id |-> 1]>>
  /\ usage.present

(* C25: isRecording is true exactly while the recorder is recording, so no *)
(* state has isRecording true with no recorder recording.                  *)
C25_FlagTracksRecorder == isRecording <=> (mediaRecorder = "recording")

(* C26: isLoading is true in every state in which a capability call has    *)
(* been issued and has not settled.                                        *)
C26_LoadingWhilePending == BagCardinality(pending) > 0 => isLoading

====
